---- MODULE Spec2Model ----
(***************************************************************************)
(* Dataset Generation Orchestrator of the LoRA photo generator             *)
(* (src/App.tsx, src/services/geminiService.ts, types in                   *)
(* src/unnamed/part_000).                                                  *)
(*                                                                         *)
(* The React component is modelled as a state machine: the useState /      *)
(* useRef cells are the variables, every event handler is one action, and  *)
(* every `await` of an external client call is a suspension point: the     *)
(* code between two awaits of one async function runs as one atomic step   *)
(* (JavaScript is single threaded).  Functional state updates              *)
(* (setX(prev => ...)) are applied in program order.                       *)
(*                                                                         *)
(* Texts are sequences of tokens; String.includes is token membership and  *)
(* String.trim removes leading and trailing whitespace tokens.             *)
(***************************************************************************)
EXTENDS Integers, Sequences, FiniteSets, TLC

\* ------------------------------------------------------------------ bounds
\* size of the pose catalog
NumPoses == 2
\* largest selection set the caller builds by toggling
MaxSelected == 2
\* batches started in one behaviour
MaxBatches == 2
\* analysis calls in flight at once
MaxAnalyses == 2
\* operations of the caller other than starting a batch
MaxCallerOps == 7

\* the absent value of an optional text
NULL == <<"null">>

\* ------------------------------------------------------------- pose catalog
Groups == <<"portrait", "upper", "full">>

\* ordered catalog of pose definitions {id, label, group}
POSE_DEFINITIONS ==
  [i \in 1..NumPoses |->
     [id |-> i, label |-> <<"pose", i>>, group |-> Groups[((i - 1) % 3) + 1]]]

PoseIds == {POSE_DEFINITIONS[i].id : i \in 1..NumPoses}

\* ------------------------------------------------------------------- texts
Whitespace == {" "}

RECURSIVE TrimLeft(_)
TrimLeft(s) ==
  IF s /= <<>> /\ Head(s) \in Whitespace THEN TrimLeft(Tail(s)) ELSE s

RECURSIVE TrimRight(_)
TrimRight(s) ==
  IF s /= <<>> /\ s[Len(s)] \in Whitespace
    THEN TrimRight(SubSeq(s, 1, Len(s) - 1))
    ELSE s

\* String.prototype.trim
trim(s) == TrimRight(TrimLeft(s))

\* String.prototype.includes on token sequences
includes(s, tok) == \E i \in 1..Len(s) : s[i] = tok

\* texts the caller types into the manual profile box
ManualTexts == {<<>>, <<" ">>, <<" ", "FACE: oval", " ">>}

\* texts the analysis call answers with (response.text)
AnalysisTexts == {<<>>, <<"HAIR: long", ".", "FACE: oval">>}

DefaultProfile == <<"A detailed character profile.">>

\* ------------------------------------------------------ provider responses
NotFoundMsg == <<"Requested entity was not found">>
ExpiredMsg == <<"API_KEY_EXPIRED">>
NoCandidatesMsg == <<"The model did not return any candidates.">>
EmptyResponseMsg ==
  <<"Generation blocked by safety filters or empty response.">>
NoImageMsg == <<"No image data found in the response parts.">>

\* what ai.models.generateContent can do: answer with candidates, or reject
Answer(cands, parts) ==
  [kind |-> "answer", candidates |-> cands, parts |-> parts,
   hasMessage |-> FALSE, message |-> <<>>]

Reject(hasMsg, msg) ==
  [kind |-> "reject", candidates |-> 0, parts |-> <<>>,
   hasMessage |-> hasMsg, message |-> msg]

TextPart == [inlineData |-> NULL]
ImagePart(d) == [inlineData |-> d]

ProviderResponses ==
  { Answer(0, <<>>),
    Answer(1, <<>>),
    Answer(1, <<TextPart>>),
    Answer(1, <<TextPart, ImagePart(<<"imgA">>), ImagePart(<<"imgB">>)>>),
    Reject(TRUE, <<"Error:", "Requested entity was not found">>),
    Reject(TRUE, <<"got status:", "401", "Unauthorized">>),
    Reject(TRUE, <<"fetch failed">>),
    Reject(FALSE, <<>>) }

\* responses drawn while batches interleave
BatchResponses ==
  { Answer(0, <<>>),
    Answer(1, <<ImagePart(<<"imgA">>)>>),
    Reject(TRUE, <<"Error:", "Requested entity was not found">>),
    Reject(TRUE, <<"got status:", "401", "Unauthorized">>),
    Reject(FALSE, <<>>) }

\* results of a client call as the caller sees them
Resolved(v) == [ok |-> TRUE, value |-> v, hasMessage |-> FALSE, message |-> <<>>]
Thrown(hasMsg, msg) ==
  [ok |-> FALSE, value |-> <<>>, hasMessage |-> hasMsg, message |-> msg]
NoResult == [ok |-> FALSE, value |-> <<>>, hasMessage |-> FALSE, message |-> <<"-">>]

\* catch block of both client operations: error.message?.includes(...)
Rethrow(hasMsg, msg) ==
  IF hasMsg /\ includes(msg, NotFoundMsg[1])
    THEN Thrown(TRUE, ExpiredMsg)
    ELSE Thrown(hasMsg, msg)

RECURSIVE FirstImage(_)
\* the for loop over parts: first part with inlineData, or NULL
FirstImage(parts) ==
  IF parts = <<>> THEN NULL
  ELSE IF Head(parts).inlineData /= NULL THEN Head(parts).inlineData
  ELSE FirstImage(Tail(parts))

\* GeminiService.generateCharacterImage, from the provider's response on
generateCharacterImage(resp) ==
  IF resp.kind = "reject" THEN Rethrow(resp.hasMessage, resp.message)
  ELSE IF resp.candidates = 0 THEN Rethrow(TRUE, NoCandidatesMsg)
  ELSE IF resp.parts = <<>> THEN Rethrow(TRUE, EmptyResponseMsg)
  ELSE IF FirstImage(resp.parts) /= NULL
    THEN Resolved(<<"data:image/png;base64,">> \o FirstImage(resp.parts))
  ELSE Rethrow(TRUE, NoImageMsg)

\* what the analysis request can do: answer with a text, or reject
AnalysisResponses ==
  { [kind |-> "answer", text |-> t, hasMessage |-> FALSE, message |-> <<>>] :
      t \in AnalysisTexts }
  \cup
  { [kind |-> "reject", text |-> <<>>, hasMessage |-> r.hasMessage,
     message |-> r.message] :
      r \in {x \in BatchResponses : x.kind = "reject"} }

\* GeminiService.analyzeCharacter, from the provider's response on
analyzeCharacter(resp) ==
  IF resp.kind = "reject" THEN Rethrow(resp.hasMessage, resp.message)
  ELSE Resolved(IF resp.text = <<>> THEN DefaultProfile ELSE resp.text)

\* err.message.includes("401") || err.message === "API_KEY_EXPIRED"
IsAuthFailure(msg) == includes(msg, "401") \/ msg = ExpiredMsg

\* ------------------------------------------------------------------- state
VARIABLES
  userApiKey,              \* text of the key input
  isKeyConfirmed,          \* the caller is authorized
  sourceImage,             \* reference image, NULL when absent
  profileMode,             \* "auto" | "manual"
  characterProfile,        \* analysis result, NULL when absent
  manualCharacterProfile,  \* manual profile text
  isAnalyzing,             \* analysing indicator
  analyses,                \* analysis calls in flight
  analysisHist,            \* the newest analysis call, and whose result is kept
  gallery,                 \* sequence of GeneratedImage, newest first
  failedAssets,            \* sequence of FailedAsset, newest first
  selectedPoseIds,         \* selection set
  insertionOrder,          \* the ids of the selection set as the Set iterates
  task,                    \* GenerationTask
  isAbortedRef,            \* cancellation flag
  loops,                   \* the running startDatasetMode invocations
  hist,                    \* per batch: what its synthesis calls did
  last,                    \* the operation of the last step
  callerOps,               \* caller operations so far
  isHairLocked,            \* hair lock
  isBodyLocked,            \* body lock
  adjustments,             \* CharacterAdjustments
  composed,                \* the last prompt composition: inputs and result
  call                     \* the last call of the synthesis client

envVars ==
  <<userApiKey, isKeyConfirmed, sourceImage, profileMode, characterProfile,
    manualCharacterProfile, isAnalyzing, analyses, analysisHist>>

coreVars ==
  <<gallery, failedAssets, selectedPoseIds, insertionOrder, task,
    isAbortedRef, loops>>

composerVars == <<isHairLocked, isBodyLocked, adjustments, composed>>

vars == <<envVars, coreVars, hist, last, callerOps, composerVars, call>>

Batches == 1..MaxBatches

\* task as useState initialises it, and as clear-bin and reset leave it
PendingTask ==
  [status |-> "pending", total |-> 0, current |-> 0, images |-> <<>>,
   error |-> NULL]

IdleLoop == [pc |-> "idle", poses |-> <<>>, i |-> 0]

\* newest: what has become of the analysis call started last ("none" before
\* the first one, then "inFlight", "ok" or "failed"); profileFrom: the call
\* whose result characterProfile holds ("none", "newest", or "older" for a
\* call started before the newest)
NoAnalysis == [newest |-> "none", profileFrom |-> "none"]

\* calls: synthesis calls the batch has made; ok / failed / fatal: the poses
\* of the batch whose call succeeded / failed / failed with an authorization
\* failure; okSince: poses that succeeded in any batch since this one
\* started; stopRequested: stopGeneration ran while the batch was running;
\* doneAtStop: how many poses of the batch had returned when that happened;
\* touched: the caller changed the selection set since the batch started
NoHist ==
  [calls |-> 0, ok |-> {}, failed |-> {}, fatal |-> {}, okSince |-> {},
   stopRequested |-> FALSE, doneAtStop |-> 0, touched |-> FALSE]

Step(op) == [op |-> op, batch |-> 0, pose |-> 0, result |-> NoResult]

\* adjustments as useState initialises them (lines 58-63)
DefaultAdjustments ==
  [eyeColor |-> "Brown", bodyBuild |-> "Average", chestSize |-> "Average",
   hipSize |-> "Average"]

\* the inputs of a composition (a pose and the two random draws) before the
\* prompt has been composed from them; again: the prompt was composed more
\* than once; at, before: the length of the gallery at the last composition
\* and at the one before it
Uncomposed(pose, clothingDraw, expressionDraw) ==
  [done |-> FALSE, pose |-> pose, clothingDraw |-> clothingDraw,
   expressionDraw |-> expressionDraw, orientation |-> <<>>,
   prompt |-> <<>>, aspectRatio |-> "", again |-> FALSE, at |-> 0,
   before |-> 0]

NoComposition == Uncomposed([group |-> "", description |-> <<>>], 0, 0)

\* a call of generateCharacterImage before it is made: the arguments and what
\* the provider is going to answer
NewCall(imageBase64, resolution, aspectRatio, response) ==
  [done |-> FALSE, imageBase64 |-> imageBase64, resolution |-> resolution,
   aspectRatio |-> aspectRatio, response |-> response, data |-> <<>>,
   result |-> NoResult]

NoCall == NewCall(<<>>, "1K", "1:1", Answer(0, <<>>))

Init ==
  /\ userApiKey = <<>>
  /\ isKeyConfirmed = FALSE
  /\ sourceImage = NULL
  /\ profileMode = "auto"
  /\ characterProfile = NULL
  /\ manualCharacterProfile = <<>>
  /\ isAnalyzing = FALSE
  /\ analyses = 0
  /\ analysisHist = NoAnalysis
  /\ gallery = <<>>
  /\ failedAssets = <<>>
  /\ selectedPoseIds = {}
  /\ insertionOrder = <<>>
  /\ task = PendingTask
  /\ isAbortedRef = FALSE
  /\ loops = [b \in Batches |-> IdleLoop]
  /\ hist = [b \in Batches |-> NoHist]
  /\ last = Step("init")
  /\ callerOps = 0
  /\ isHairLocked = TRUE
  /\ isBodyLocked = FALSE
  /\ adjustments = DefaultAdjustments
  /\ composed = NoComposition
  /\ call = NoCall

\* number of batches started so far
Started == Cardinality({b \in Batches : loops[b].pc /= "idle"})

\* batches whose synthesis call is in flight
InFlight == {b \in Batches : loops[b].pc = "await"}

\* number of poses of batch b whose synthesis call has returned
Returned(b) ==
  Cardinality(hist[b].ok \cup hist[b].failed \cup hist[b].fatal)

\* -------------------------------------------------------- profile resolver
\* JavaScript truthiness of a string | null
Truthy(text) == text /= NULL /\ text /= <<>>

\* getActiveProfile that falls back on the analysis result in manual mode
getActiveProfileMerged ==
  IF profileMode = "auto" THEN characterProfile
  ELSE IF Truthy(trim(manualCharacterProfile))
    THEN trim(manualCharacterProfile)
    ELSE characterProfile

\* lines 76-82; x || null is null for the empty text
getActiveProfile ==
  IF profileMode = "auto" THEN characterProfile
  ELSE IF Truthy(trim(manualCharacterProfile))
    THEN trim(manualCharacterProfile)
    ELSE NULL

\* isProfileReady with the manual text tested as typed
isProfileReadyUntrimmed ==
  IF profileMode = "auto" THEN Truthy(characterProfile)
  ELSE Len(manualCharacterProfile) > 0

\* lines 85-91
isProfileReady ==
  IF profileMode = "auto" THEN Truthy(characterProfile)
  ELSE Len(trim(manualCharacterProfile)) > 0

\* ---------------------------------------------------------- what is on screen
\* the authorization screen replaces everything until the key is confirmed
MainScreen == isKeyConfirmed
\* the studio grid is rendered once a reference image is present
StudioGrid == isKeyConfirmed /\ sourceImage /= NULL
\* the dataset generator panel is rendered once the profile is ready
PosePanel == StudioGrid /\ isProfileReady

\* one more operation of the caller
CallerOp ==
  /\ callerOps < MaxCallerOps
  /\ callerOps' = callerOps + 1

\* ------------------------------------------------------- batch orchestrator
\* StartPreconditions without the authorization test
StartPreconditionsUnauthorized ==
  /\ sourceImage /= NULL
  /\ isProfileReady
  /\ Cardinality(selectedPoseIds) /= 0

\* line 246: the guard of startDatasetMode
StartPreconditions ==
  /\ sourceImage /= NULL
  /\ isProfileReady
  /\ isKeyConfirmed
  /\ Cardinality(selectedPoseIds) /= 0

\* the selected poses taken as the selection set iterates them
SelectionInInsertionOrder(i, sel) == insertionOrder

\* line 252: POSE_DEFINITIONS.filter(p => selectedPoseIds.has(p.id))
RECURSIVE FilterCatalog(_, _)
FilterCatalog(i, sel) ==
  IF i > NumPoses THEN <<>>
  ELSE (IF POSE_DEFINITIONS[i].id \in sel THEN <<POSE_DEFINITIONS[i].id>>
        ELSE <<>>) \o FilterCatalog(i + 1, sel)

\* FreshTask that spreads the earlier task: its error stays
FreshTaskOverPrevious(sel) ==
  [task EXCEPT !.status = "generating", !.total = Cardinality(sel),
               !.current = 0, !.images = <<>>]

\* line 249: the task a batch starts with
FreshTask(sel) ==
  [status |-> "generating", total |-> Cardinality(sel), current |-> 0,
   images |-> <<>>, error |-> NULL]

\* lines 328-334: the image of a successful call
NewImage(b, p, url) ==
  [id |-> <<"dataset", b, p>>, url |-> url,
   group |-> POSE_DEFINITIONS[p].group]

\* lines 355-361: the record of a failed call
NewFailedAsset(b, p, msg) ==
  [id |-> <<"failed", b, p>>, label |-> POSE_DEFINITIONS[p].label,
   message |-> msg]

\* TaskOnSuccess that appends the image
TaskOnSuccessAppending(t, img) ==
  [t EXCEPT !.current = @ + 1, !.images = @ \o <<img>>]

\* lines 343-347
TaskOnSuccess(t, img) ==
  [t EXCEPT !.current = @ + 1, !.images = <<img>> \o @]

\* line 351
TaskOnFatal(t, msg) == [t EXCEPT !.error = msg, !.status = "failed"]

\* TaskOnFailure that leaves task.current alone
TaskOnFailureUncounted(t) == t

\* line 363
TaskOnFailure(t) == [t EXCEPT !.current = @ + 1]

\* line 366: after the loop
TaskAfterLoop(t, aborted) ==
  IF ~aborted THEN [t EXCEPT !.status = "completed"] ELSE t

\* LoopGoesOn that looks the next pose up in the selection set
LoopGoesOnWhileSelected(l, aborted) ==
  /\ l.i < Len(l.poses)
  /\ ~aborted
  /\ l.poses[l.i + 1] \in selectedPoseIds

\* lines 254-255: does the loop of l go into a further iteration
LoopGoesOn(l, aborted) == l.i < Len(l.poses) /\ ~aborted

\* NextIteration that stays at the pose it has just processed
NextIterationSamePose(b, t) ==
  IF LoopGoesOn(loops[b], isAbortedRef)
    THEN /\ loops' = loops
         /\ task' = t
    ELSE /\ loops' = [loops EXCEPT ![b].pc = "done"]
         /\ task' = TaskAfterLoop(t, isAbortedRef)

\* lines 254-326 and 366: from the end of one iteration to the next await,
\* or out of the loop; t is the task as the iteration left it
NextIteration(b, t) ==
  IF LoopGoesOn(loops[b], isAbortedRef)
    THEN /\ loops' = [loops EXCEPT ![b].i = @ + 1]
         /\ task' = t
    ELSE /\ loops' = [loops EXCEPT ![b].pc = "done"]
         /\ task' = TaskAfterLoop(t, isAbortedRef)

\* lines 245-326: the Generate Batch button (enabled unless a batch is
\* generating, line 879) runs startDatasetMode up to its first await
startDatasetMode ==
  /\ task.status /= "generating"
  /\ UNCHANGED <<callerOps, composerVars, call>>
  /\ IF ~StartPreconditions
       THEN /\ last' = Step("refused")
            /\ UNCHANGED <<envVars, coreVars, hist>>
       ELSE /\ Started < MaxBatches
            /\ LET b == Started + 1
                   selectedPoses == FilterCatalog(1, selectedPoseIds)
               IN /\ isAbortedRef' = FALSE
                  /\ task' = FreshTask(selectedPoseIds)
                  /\ failedAssets' = <<>>
                  /\ loops' = [loops EXCEPT
                                 ![b] = [pc |-> "await",
                                         poses |-> selectedPoses, i |-> 1]]
                  /\ hist' = [hist EXCEPT ![b].calls = 1]
                  /\ last' = [Step("start") EXCEPT !.batch = b]
            /\ UNCHANGED <<envVars, gallery, selectedPoseIds, insertionOrder>>

\* Set.prototype.delete on the iteration order of a Set
Without(order, id) == SelectSeq(order, LAMBDA x : x /= id)

\* Set.prototype.add: a new id goes to the end, a present one stays
Added(order, id) ==
  IF \E k \in 1..Len(order) : order[k] = id THEN order
  ELSE Append(order, id)

\* SelectionOnSuccess without the delete
SelectionKept(sel, p) == sel

\* lines 336-340: the selection set after a successful pose
SelectionOnSuccess(sel, p) == sel \ {p}

\* the batches started so far
StartedBatches == {c \in Batches : loops[c].pc /= "idle"}

\* lines 328-347: the call of batch b for pose p resolved with url
SuccessBranch(b, p, url) ==
  /\ selectedPoseIds' = SelectionOnSuccess(selectedPoseIds, p)
  /\ insertionOrder' = Without(insertionOrder, p)
  /\ gallery' = <<NewImage(b, p, url)>> \o gallery
  /\ NextIteration(b, TaskOnSuccess(task, NewImage(b, p, url)))
  /\ hist' = [c \in Batches |->
               IF c = b
                 THEN [hist[c] EXCEPT
                         !.ok = @ \cup {p},
                         !.okSince = @ \cup {p},
                         !.calls = IF LoopGoesOn(loops[b], isAbortedRef)
                                     THEN @ + 1 ELSE @]
               ELSE IF c \in StartedBatches
                 THEN [hist[c] EXCEPT !.okSince = @ \cup {p}]
               ELSE hist[c]]
  /\ UNCHANGED <<envVars, failedAssets, isAbortedRef>>

\* line 349 on a rejection that has no message: err.message.includes throws
\* inside the catch block and the promise of startDatasetMode rejects
CrashBranch(b, p) ==
  /\ loops' = [loops EXCEPT ![b].pc = "crashed"]
  /\ hist' = [hist EXCEPT ![b].failed = @ \cup {p}]
  /\ UNCHANGED <<envVars, gallery, failedAssets, selectedPoseIds,
                 insertionOrder, task, isAbortedRef>>

\* FatalBranch without its return statement: the loop goes on
FatalBranchNoReturn(b, p, msg) ==
  /\ isKeyConfirmed' = FALSE
  /\ NextIteration(b, TaskOnFatal(task, msg))
  /\ hist' = [hist EXCEPT
               ![b].fatal = @ \cup {p},
               ![b].calls = IF LoopGoesOn(loops[b], isAbortedRef)
                              THEN @ + 1 ELSE @]
  /\ UNCHANGED <<userApiKey, sourceImage, profileMode, characterProfile,
                 manualCharacterProfile, isAnalyzing, analyses, analysisHist,
                 gallery, failedAssets, selectedPoseIds, insertionOrder,
                 isAbortedRef>>

\* lines 349-353: the call of batch b for pose p failed with an
\* authorization failure
FatalBranch(b, p, msg) ==
  /\ isKeyConfirmed' = FALSE
  /\ task' = TaskOnFatal(task, msg)
  /\ loops' = [loops EXCEPT ![b].pc = "failed"]
  /\ hist' = [hist EXCEPT ![b].fatal = @ \cup {p}]
  /\ UNCHANGED <<userApiKey, sourceImage, profileMode, characterProfile,
                 manualCharacterProfile, isAnalyzing, analyses, analysisHist,
                 gallery, failedAssets, selectedPoseIds, insertionOrder,
                 isAbortedRef>>

\* lines 355-363: the call of batch b for pose p failed otherwise
FailureBranch(b, p, msg) ==
  /\ failedAssets' = <<NewFailedAsset(b, p, msg)>> \o failedAssets
  /\ NextIteration(b, TaskOnFailure(task))
  /\ hist' = [hist EXCEPT
               ![b].failed = @ \cup {p},
               ![b].calls = IF LoopGoesOn(loops[b], isAbortedRef)
                              THEN @ + 1 ELSE @]
  /\ UNCHANGED <<envVars, gallery, selectedPoseIds, insertionOrder,
                 isAbortedRef>>

\* lines 326-366: the synthesis call of batch b returns, and the loop runs
\* on to its next await or to its end
SynthesisReturns(b, resp) ==
  /\ loops[b].pc = "await"
  /\ UNCHANGED <<callerOps, composerVars, call>>
  /\ LET p == loops[b].poses[loops[b].i]
         r == generateCharacterImage(resp)
     IN /\ last' = [op |-> "return", batch |-> b, pose |-> p, result |-> r]
        /\ IF r.ok THEN SuccessBranch(b, p, r.value)
           ELSE IF ~r.hasMessage THEN CrashBranch(b, p)
           ELSE IF IsAuthFailure(r.message) THEN FatalBranch(b, p, r.message)
           ELSE FailureBranch(b, p, r.message)

\* lines 154-157: the Stop Batch button, rendered while generating (line 558)
stopGeneration ==
  /\ MainScreen
  /\ task.status = "generating"
  /\ isAbortedRef' = TRUE
  /\ task' = [task EXCEPT !.status = "stopped"]
  /\ hist' = [b \in Batches |->
               IF b \in InFlight /\ ~hist[b].stopRequested
                 THEN [hist[b] EXCEPT !.stopRequested = TRUE,
                                      !.doneAtStop = Returned(b)]
               ELSE hist[b]]
  /\ last' = Step("stop")
  /\ CallerOp
  /\ UNCHANGED <<composerVars, call>>
  /\ UNCHANGED <<envVars, gallery, failedAssets, selectedPoseIds,
                 insertionOrder, loops>>

\* lines 228-233: the Clear Bin button, rendered while the gallery is not
\* empty (lines 528, 928), on its confirming click
executeClearBin ==
  /\ MainScreen
  /\ Len(gallery) > 0
  /\ gallery' = <<>>
  /\ task' = PendingTask
  /\ failedAssets' = <<>>
  /\ last' = Step("clear")
  /\ CallerOp
  /\ UNCHANGED <<composerVars, call>>
  /\ UNCHANGED <<envVars, selectedPoseIds, insertionOrder, isAbortedRef, loops,
                 hist>>

\* the caller changed the selection set: remembered for the started batches
Touch ==
  [b \in Batches |->
     IF loops[b].pc /= "idle" THEN [hist[b] EXCEPT !.touched = TRUE]
     ELSE hist[b]]

\* lines 395-406: the reset button of the studio grid (line 695); the caller
\* answers window.confirm
resetAll(confirmed) ==
  /\ StudioGrid
  /\ last' = Step("reset")
  /\ CallerOp
  /\ UNCHANGED <<adjustments, composed, call>>
  /\ IF confirmed
       THEN /\ isBodyLocked' = FALSE
            /\ isHairLocked' = TRUE
            /\ sourceImage' = NULL
            /\ characterProfile' = NULL
            /\ analysisHist' = [analysisHist EXCEPT !.profileFrom = "none"]
            /\ manualCharacterProfile' = <<>>
            /\ task' = PendingTask
            /\ selectedPoseIds' = {}
            /\ insertionOrder' = <<>>
            /\ failedAssets' = <<>>
            /\ hist' = Touch
            /\ UNCHANGED <<userApiKey, isKeyConfirmed, profileMode,
                           isAnalyzing, analyses, gallery, isAbortedRef,
                           loops>>
       ELSE UNCHANGED <<envVars, coreVars, hist, isBodyLocked, isHairLocked>>

\* lines 375-382: a pose card of the dataset generator panel (line 901)
togglePoseSelection(id) ==
  /\ PosePanel
  /\ id \in selectedPoseIds \/ Cardinality(selectedPoseIds) < MaxSelected
  /\ selectedPoseIds' =
       IF id \in selectedPoseIds THEN selectedPoseIds \ {id}
       ELSE selectedPoseIds \cup {id}
  /\ insertionOrder' =
       IF id \in selectedPoseIds THEN Without(insertionOrder, id)
       ELSE Added(insertionOrder, id)
  /\ hist' = Touch
  /\ last' = Step("other")
  /\ CallerOp
  /\ UNCHANGED <<composerVars, call>>
  /\ UNCHANGED <<envVars, gallery, failedAssets, task, isAbortedRef, loops>>

\* line 922: the Clear Selection button
clearSelection ==
  /\ PosePanel
  /\ selectedPoseIds' = {}
  /\ insertionOrder' = <<>>
  /\ hist' = Touch
  /\ last' = Step("other")
  /\ CallerOp
  /\ UNCHANGED <<composerVars, call>>
  /\ UNCHANGED <<envVars, gallery, failedAssets, task, isAbortedRef, loops>>

\* line 385: the poses of a group, in catalog order
RECURSIVE GroupPoses(_, _)
GroupPoses(i, group) ==
  IF i > NumPoses THEN <<>>
  ELSE (IF POSE_DEFINITIONS[i].group = group THEN <<POSE_DEFINITIONS[i].id>>
        ELSE <<>>) \o GroupPoses(i + 1, group)

\* forEach(p => next.add(p.id))
RECURSIVE AddedAll(_, _)
AddedAll(order, ids) ==
  IF ids = <<>> THEN order
  ELSE AddedAll(Added(order, Head(ids)), Tail(ids))

\* lines 384-393: toggleGroupAll of a group of the dataset generator panel
toggleGroupAll(group) ==
  LET groupPoses == GroupPoses(1, group)
      ids == {groupPoses[k] : k \in 1..Len(groupPoses)}
      allSelected == ids \subseteq selectedPoseIds
  IN /\ PosePanel
     /\ allSelected \/ Cardinality(selectedPoseIds \cup ids) <= MaxSelected
     /\ selectedPoseIds' =
          IF allSelected THEN selectedPoseIds \ ids
          ELSE selectedPoseIds \cup ids
     /\ insertionOrder' =
          IF allSelected
            THEN SelectSeq(insertionOrder, LAMBDA x : x \notin ids)
            ELSE AddedAll(insertionOrder, groupPoses)
     /\ hist' = Touch
     /\ last' = Step("other")
     /\ CallerOp
     /\ UNCHANGED <<composerVars, call>>
     /\ UNCHANGED <<envVars, gallery, failedAssets, task, isAbortedRef,
                    loops>>

\* deleteImage that removes the image from the task as well
deleteImageFromTask(id) ==
  /\ StudioGrid
  /\ \E k \in 1..Len(gallery) : gallery[k].id = id
  /\ gallery' = SelectSeq(gallery, LAMBDA img : img.id /= id)
  /\ task' = [task EXCEPT
               !.images = SelectSeq(@, LAMBDA img : img.id /= id)]
  /\ last' = Step("other")
  /\ CallerOp
  /\ UNCHANGED <<composerVars, call>>
  /\ UNCHANGED <<envVars, failedAssets, selectedPoseIds, insertionOrder,
                 isAbortedRef, loops, hist>>

\* line 161: the delete button of a gallery card (line 954)
deleteImage(id) ==
  /\ StudioGrid
  /\ \E k \in 1..Len(gallery) : gallery[k].id = id
  /\ gallery' = SelectSeq(gallery, LAMBDA img : img.id /= id)
  /\ last' = Step("other")
  /\ CallerOp
  /\ UNCHANGED <<composerVars, call>>
  /\ UNCHANGED <<envVars, failedAssets, selectedPoseIds, insertionOrder, task,
                 isAbortedRef, loops, hist>>

\* ------------------------------------------------------------ authorization
\* line 456: the key input of the authorization screen
setUserApiKey(k) ==
  /\ ~isKeyConfirmed
  /\ userApiKey' = k
  /\ last' = Step("other")
  /\ CallerOp
  /\ UNCHANGED <<composerVars, call>>
  /\ UNCHANGED <<isKeyConfirmed, sourceImage, profileMode, characterProfile,
                 manualCharacterProfile, isAnalyzing, analyses, analysisHist,
                 coreVars, hist>>

\* lines 460-462: the Initialize System button, disabled without a key
initializeSystem ==
  /\ ~isKeyConfirmed
  /\ userApiKey /= <<>>
  /\ isKeyConfirmed' = TRUE
  /\ last' = Step("confirm")
  /\ CallerOp
  /\ UNCHANGED <<composerVars, call>>
  /\ UNCHANGED <<userApiKey, sourceImage, profileMode, characterProfile,
                 manualCharacterProfile, isAnalyzing, analyses, analysisHist,
                 coreVars, hist>>

\* ------------------------------------------------------- profile and image
\* lines 130-133: analyzeImage up to its await
AnalysisStarts ==
  /\ analyses < MaxAnalyses
  /\ isAnalyzing' = TRUE
  /\ analyses' = analyses + 1
  /\ analysisHist' =
       [newest |-> "inFlight",
        profileFrom |-> IF analysisHist.profileFrom = "newest" THEN "older"
                        ELSE analysisHist.profileFrom]

\* lines 101-114: a file is dropped or chosen on an upload screen (lines 577,
\* 605), which is rendered while there is no reference image
processFile(isImage) ==
  /\ MainScreen
  /\ sourceImage = NULL
  /\ last' = Step("other")
  /\ CallerOp
  /\ UNCHANGED <<composerVars, call>>
  /\ IF isImage
       THEN /\ sourceImage' = <<"image">>
            /\ IF profileMode = "auto" THEN AnalysisStarts
               ELSE UNCHANGED <<isAnalyzing, analyses, analysisHist>>
       ELSE UNCHANGED <<sourceImage, isAnalyzing, analyses, analysisHist>>
  /\ UNCHANGED <<userApiKey, isKeyConfirmed, profileMode, characterProfile,
                 manualCharacterProfile, coreVars, hist>>

\* lines 142-152: the Re-analyze button (line 768, a profile is shown) and the
\* Analyze button (line 788, none is shown), both in auto mode and while no
\* analysis is shown as running
retryOrTriggerAnalysis ==
  /\ StudioGrid
  /\ profileMode = "auto"
  /\ ~isAnalyzing
  /\ AnalysisStarts
  /\ last' = Step("other")
  /\ CallerOp
  /\ UNCHANGED <<composerVars, call>>
  /\ UNCHANGED <<userApiKey, isKeyConfirmed, sourceImage, profileMode,
                 characterProfile, manualCharacterProfile, coreVars, hist>>

\* lines 408-414: the mode toggle
handleModeSwitch(mode) ==
  /\ MainScreen
  /\ profileMode' = mode
  /\ last' = Step("other")
  /\ CallerOp
  /\ UNCHANGED <<composerVars, call>>
  /\ IF mode = "auto" /\ sourceImage /= NULL /\ characterProfile = NULL
       THEN AnalysisStarts
       ELSE UNCHANGED <<isAnalyzing, analyses, analysisHist>>
  /\ UNCHANGED <<userApiKey, isKeyConfirmed, sourceImage, characterProfile,
                 manualCharacterProfile, coreVars, hist>>

\* lines 656, 817: the manual profile box, rendered in manual mode
setManualCharacterProfile(text) ==
  /\ MainScreen
  /\ profileMode = "manual"
  /\ manualCharacterProfile' = text
  /\ last' = Step("other")
  /\ CallerOp
  /\ UNCHANGED <<composerVars, call>>
  /\ UNCHANGED <<userApiKey, isKeyConfirmed, sourceImage, profileMode,
                 characterProfile, isAnalyzing, analyses, analysisHist,
                 coreVars, hist>>

\* lines 133-139: an analysis call returns, the one started last (newest)
\* or one started before it
AnalysisReturns(resp, newest) ==
  /\ analyses > 0
  /\ IF newest THEN analysisHist.newest = "inFlight"
     ELSE analyses > (IF analysisHist.newest = "inFlight" THEN 1 ELSE 0)
  /\ analyses' = analyses - 1
  /\ isAnalyzing' = FALSE
  /\ analysisHist' =
       [newest |-> IF ~newest THEN analysisHist.newest
                   ELSE IF analyzeCharacter(resp).ok THEN "ok" ELSE "failed",
        profileFrom |-> IF ~analyzeCharacter(resp).ok
                          THEN analysisHist.profileFrom
                        ELSE IF newest THEN "newest" ELSE "older"]
  /\ last' = Step("other")
  /\ UNCHANGED <<callerOps, composerVars, call>>
  /\ LET r == analyzeCharacter(resp)
     IN IF r.ok
          THEN /\ characterProfile' = r.value
               /\ UNCHANGED isKeyConfirmed
        ELSE IF r.hasMessage /\ IsAuthFailure(r.message)
          THEN /\ isKeyConfirmed' = FALSE
               /\ UNCHANGED characterProfile
        ELSE UNCHANGED <<characterProfile, isKeyConfirmed>>
  /\ UNCHANGED <<userApiKey, sourceImage, profileMode,
                 manualCharacterProfile, coreVars, hist>>

\* -------------------------------------------------------------- behaviours
Next ==
  \/ startDatasetMode
  \/ \E b \in Batches, resp \in BatchResponses : SynthesisReturns(b, resp)
  \/ stopGeneration
  \/ executeClearBin
  \/ \E c \in BOOLEAN : resetAll(c)
  \/ \E id \in PoseIds : togglePoseSelection(id)
  \/ clearSelection
  \/ \E g \in {Groups[k] : k \in 1..Len(Groups)} : toggleGroupAll(g)
  \/ \E k \in 1..Len(gallery) : deleteImage(gallery[k].id)
  \/ \E k \in {<<>>, <<"key">>} : setUserApiKey(k)
  \/ initializeSystem
  \/ \E f \in BOOLEAN : processFile(f)
  \/ retryOrTriggerAnalysis
  \/ \E m \in {"auto", "manual"} : handleModeSwitch(m)
  \/ \E t \in ManualTexts : setManualCharacterProfile(t)
  \/ \E resp \in AnalysisResponses, newest \in BOOLEAN :
       AnalysisReturns(resp, newest)

Spec == Init /\ [][Next]_vars

\* ---------------------------------------------------------- prompt composer
\* String.prototype.toLowerCase, token by token
Lower(tok) ==
  CASE tok = "Rear" -> "rear"
    [] tok = "HAIR:" -> "hair:"
    [] tok = "Hair:" -> "hair:"
    [] tok = "Narrow Waist" -> "narrow waist"
    [] OTHER -> tok

\* the keywords that occur inside a lower-case token
Within(tok) ==
  CASE tok = "90-degree" -> {"90-degree", "90"}
    [] tok = "45-degree" -> {"45"}
    [] tok = "view from behind" -> {"view from behind", "behind"}
    [] tok = "narrow waist" -> {"waist"}
    [] tok = "waist-length" -> {"waist"}
    [] tok = "athletic body build" -> {"body build"}
    [] tok = "long-limbed proportions" -> {"proportion"}
    [] tok = "soft smile" -> {"smile"}
    [] OTHER -> {tok}

\* text.toLowerCase().includes(kw)
includesLower(text, kw) == \E i \in 1..Len(text) : kw \in Within(Lower(text[i]))

\* String.prototype.split('.')
RECURSIVE Split(_)
Split(s) ==
  LET dots == {k \in 1..Len(s) : s[k] = "."}
  IN IF dots = {} THEN <<s>>
     ELSE LET k == CHOOSE d \in dots : \A e \in dots : d <= e
          IN <<SubSeq(s, 1, k - 1)>> \o Split(SubSeq(s, k + 1, Len(s)))

\* Array.prototype.join('.')
RECURSIVE Join(_)
Join(frags) ==
  IF frags = <<>> THEN <<>>
  ELSE IF Len(frags) = 1 THEN frags[1]
  ELSE frags[1] \o <<".">> \o Join(Tail(frags))

\* line 173: the words a portrait must not carry
BodyWords == {"body build", "proportion", "waist"}

MentionsBody(text) == \E kw \in BodyWords : includesLower(text, kw)

\* the tokens of s from position i up to the next '.' or the end
RunToDot(s, i) ==
  LET dots == {k \in i..Len(s) : s[k] = "."}
  IN IF dots = {} THEN SubSeq(s, i, Len(s))
     ELSE SubSeq(s, i, (CHOOSE d \in dots : \A e \in dots : d <= e) - 1)

\* line 169: profile.match(/HAIR:\s*([^.]+)/i)?.[1] || "", the match tried
\* from position i on; \s* gives back its last whitespace when nothing else
\* is left for the group
RECURSIVE HairFrom(_, _)
HairFrom(s, i) ==
  IF i > Len(s) THEN <<>>
  ELSE IF Lower(s[i]) = "hair:" /\ RunToDot(s, i + 1) /= <<>>
    THEN LET rest == RunToDot(s, i + 1)
         IN IF TrimLeft(rest) /= <<>> THEN TrimLeft(rest)
            ELSE <<rest[Len(rest)]>>
  ELSE HairFrom(s, i + 1)

\* the portrait filter of lines 171-175
StripBodyFragments(profile) ==
  Join(SelectSeq(Split(profile), LAMBDA f : ~MentionsBody(f)))

\* line 169: the hair fragment, read from the whole profile
HairPart(activeProfile) == HairFrom(activeProfile, 1)

\* lines 164-196
getLockedIdentityMod(isPortrait, isSideProfile) ==
  LET activeProfile == getActiveProfile
  IN IF ~Truthy(activeProfile) THEN <<>>
     ELSE
       LET hairPart == HairPart(activeProfile)
           profile == IF isPortrait THEN StripBodyFragments(activeProfile)
                      ELSE activeProfile
           poseConstraint ==
             IF isSideProfile
               THEN "CRITICAL: Ignore reference orientation; force profile specified in TARGET POSE."
               ELSE "Preserve identity features and facial structure exactly."
           base ==
             <<"IDENTITY CONSTRAINTS: ", poseConstraint, " Eyes: ",
               adjustments.eyeColor, ". Profile: ">> \o profile \o <<".">>
           withHair ==
             IF isHairLocked /\ hairPart /= <<>>
               THEN base \o <<" MANDATORY HAIR CONSISTENCY: ">> \o hairPart
                         \o <<". DO NOT ALTER LENGTH OR STYLE", ".">>
               ELSE base
       IN IF isPortrait THEN withHair
          ELSE IF isBodyLocked
            THEN withHair \o
                 <<" Keep the exact original body build and proportions from reference image",
                   ".">>
          ELSE withHair \o
               <<" Targeted Build: ", adjustments.bodyBuild, ", Chest: ",
                 adjustments.chestSize, ", Hips: ", adjustments.hipSize, ".">>

\* lines 263-268
expressionKeywords ==
  {"smile", "smirk", "laugh", "teeth", "wink", "gaze", "thoughtful",
   "serene", "nose", "lip", "joy", "fear", "anxious", "vulnerable", "stern",
   "desperate", "exhaustion", "concentrated", "neutral", "stoic", "pensive",
   "rembrandt"}

\* lines 282-289: the keyword families of a pose description
isRear(desc) ==
  \/ includesLower(desc, "rear")
  \/ includesLower(desc, "behind")
  \/ includesLower(desc, "back view")
  \/ includesLower(desc, "view from behind")
isOverShoulder(desc) == includesLower(desc, "looking back at camera")
isLeft(desc) == includesLower(desc, "left")
isRight(desc) == includesLower(desc, "right")
isProfile(desc) == includesLower(desc, "90") \/ includesLower(desc, "profile")
is45(desc) == includesLower(desc, "45")
isFrontal(desc) ==
  /\ \/ includesLower(desc, "frontal")
     \/ (includesLower(desc, "center") /\ ~includesLower(desc, "behind"))
  /\ ~isLeft(desc)
  /\ ~isRight(desc)
  /\ ~isRear(desc)

\* sentences of lines 292-316 (the dash of the source is written --); the
\* period that ends a clause is a token of its own
RearDirective == "Rear view. Subject is facing away from camera. "
CameraBehindRight == "Camera positioned behind and to the right"
CameraBehindLeft == "Camera positioned behind and to the left"
LeftSideVisible == "seeing back of head and left side only. "
RightSideVisible == "seeing back of head and right side only. "
NoFrontalFace ==
  "ABSOLUTELY NO FULL FRONTAL FACE. DO NOT TURN SUBJECT TOWARD CAMERA"
FrontalDirective ==
  "Direct frontal view. Subject looking straight into camera with both eyes fully visible and centered"
OrientationHeader == "CRITICAL: SHOT ORIENTATION -- "
ProfileDirective == "Strict 90-degree side profile. "
AngledDirective == "Angled orientation. "
OverShoulderQualifier ==
  "Subject is looking back at the camera over their shoulder, but primary body orientation is maintained. "

\* lines 294-297: the rear branch
RearBranch(desc) ==
  <<RearDirective>>
  \o (IF isLeft(desc) THEN <<CameraBehindRight, " -- ", LeftSideVisible>>
      ELSE <<>>)
  \o (IF isRight(desc) THEN <<CameraBehindLeft, " -- ", RightSideVisible>>
      ELSE <<>>)

\* lines 298-301: the side profile branch
ProfileBranch(desc) ==
  <<ProfileDirective>>
  \o (IF isLeft(desc) THEN <<"Facing screen-left. Only left profile visible. ">>
      ELSE <<>>)
  \o (IF isRight(desc)
        THEN <<"Facing screen-right. Only right profile visible. ">>
        ELSE <<>>)

\* lines 302-306: the angled branch
AngledBranch(desc) ==
  <<AngledDirective>>
  \o (IF isLeft(desc) THEN <<"Subject facing screen-left. ">> ELSE <<>>)
  \o (IF isRight(desc) THEN <<"Subject facing screen-right. ">> ELSE <<>>)

\* lines 280-317: the orientation clause
directionMod(desc) ==
  IF isRear(desc) \/ is45(desc) \/ isProfile(desc) \/ isLeft(desc)
       \/ isRight(desc)
    THEN <<OrientationHeader>>
         \o (IF isRear(desc) THEN RearBranch(desc)
             ELSE IF isProfile(desc) THEN ProfileBranch(desc)
             ELSE AngledBranch(desc))
         \o (IF isOverShoulder(desc) THEN <<OverShoulderQualifier>> ELSE <<>>)
         \o <<NoFrontalFace, ".">>
  ELSE IF isFrontal(desc) THEN <<FrontalDirective, ".">>
  ELSE <<>>

\* wardrobe and expression lists (constants.ts)
CLOTHING_LIST == <<"white t-shirt", "black hoodie">>
FACIAL_EXPRESSIONS == <<"soft smile", "serious look">>

\* lines 269-275: the expression; draw is Math.floor(Math.random() * length)
ExpressionOf(pose, draw) ==
  IF \E kw \in expressionKeywords : includesLower(pose.description, kw)
    THEN ""
  ELSE IF pose.group = "portrait" \/ pose.group = "upper"
    THEN FACIAL_EXPRESSIONS[draw + 1]
  ELSE "neutral gaze"

\* line 277
AspectRatio(pose) == IF pose.group = "full" THEN "3:4" ELSE "1:1"

\* lines 319-321
framingMod(pose) ==
  IF pose.group = "portrait"
    THEN <<"85mm lens, Tight headshot, shoulder-up framing only, clear facial features, bokeh studio background",
           ".">>
    ELSE <<"Professional framing, standard lens", ".">>

\* PromptTail that tells whether the gallery is empty
PromptTailWithGallery ==
  <<".", " ", "ENVIRONMENT: ",
    IF gallery = <<>> THEN "first shot" ELSE "next shot", ".">>

\* line 323: what follows the identity clause
PromptTail ==
  <<".", " ", "ENVIRONMENT: ",
    "Professional neutral high-key studio, seamless gray backdrop. 8k resolution, high detail",
    ".">>

\* lines 257-323: the prompt of one pose
ComposedPrompt(pose, clothingDraw, expressionDraw) ==
  LET isPortrait == pose.group = "portrait"
      isSideProfile ==
        \/ includesLower(pose.description, "90-degree")
        \/ includesLower(pose.description, "profile")
      identityMod == getLockedIdentityMod(isPortrait, isSideProfile)
      clothing == CLOTHING_LIST[clothingDraw + 1]
      expression == ExpressionOf(pose, expressionDraw)
      orientation == directionMod(pose.description)
  IN <<"DATASET PRODUCTION", ".", " ">>
     \o (IF orientation /= <<>> THEN orientation \o <<" ">> ELSE <<>>)
     \o <<"TARGET POSE: ">> \o pose.description
     \o <<".", " ", "COMPOSITION: ">> \o framingMod(pose) \o <<".", " ">>
     \o (IF expression /= "" THEN <<"EXPRESSION: ", expression, ".", " ">>
         ELSE <<>>)
     \o <<"CLOTHING: ", clothing, ".", " ">>
     \o identityMod
     \o PromptTail

\* pose descriptions of the catalog kind, one for each branch of the composer
PoseDescriptions ==
  { <<"standing">>,
    <<"Rear", "left">>,
    <<"Rear", "right", "looking back at camera">>,
    <<"Rear", "left", "right">>,
    <<"profile", "left">>,
    <<"90-degree", "right">>,
    <<"45-degree", "smile">>,
    <<"frontal">>,
    <<"center">>,
    <<"center", "view from behind">>,
    <<"center", "left">>,
    <<"standing", "looking back at camera">>,
    <<"frontal", "looking back at camera">> }

ComposerPoses ==
  { [group |-> g, description |-> d] :
      g \in {Groups[k] : k \in 1..Len(Groups)}, d \in PoseDescriptions }

\* identity profiles the analysis answers with
IdentityProfiles ==
  { <<"HAIR:", " ", "waist-length", ".", " ", "BUILD: ",
      "athletic body build", ".", "FACE: oval">>,
    <<"FACE: oval", ".", "long-limbed proportions", ".", "Hair:", " ">>,
    <<"Narrow Waist", ".", "HAIR:", "short">> }

\* what is typed as a manual profile
ManualProfiles ==
  { <<>>, <<" ">>,
    <<" ", "HAIR:", " ", "short", ".", "narrow waist", ".", " ">> }

\* the state a composition starts from: a workspace that is ready for a
\* batch, possibly with an image of an earlier batch in the gallery, the
\* locks as the caller has set them, and a pose with its two random draws
ComposerInit ==
  /\ userApiKey = <<"key">>
  /\ isKeyConfirmed = TRUE
  /\ sourceImage = <<"image">>
  /\ profileMode \in {"auto", "manual"}
  /\ characterProfile \in IdentityProfiles \cup {NULL}
  /\ manualCharacterProfile \in ManualProfiles
  /\ isAnalyzing = FALSE
  /\ analyses = 0
  /\ analysisHist = NoAnalysis
  /\ \/ gallery = <<>> /\ task = PendingTask
     \/ /\ gallery = <<NewImage(1, 1, <<"data:image/png;base64,", "imgA">>)>>
        /\ task = [status |-> "completed", total |-> 1, current |-> 1,
                   images |-> gallery, error |-> NULL]
  /\ failedAssets = <<>>
  /\ selectedPoseIds = {}
  /\ insertionOrder = <<>>
  /\ isAbortedRef = FALSE
  /\ loops = [b \in Batches |-> IdleLoop]
  /\ hist = [b \in Batches |-> NoHist]
  /\ last = Step("init")
  /\ callerOps = 0
  /\ isHairLocked \in BOOLEAN
  /\ isBodyLocked \in BOOLEAN
  /\ adjustments = DefaultAdjustments
  /\ composed \in
       { Uncomposed(pose, c, e) :
           pose \in ComposerPoses, c \in 0..(Len(CLOTHING_LIST) - 1),
           e \in 0..(Len(FACIAL_EXPRESSIONS) - 1) }
  /\ call = NoCall

\* lines 257-323 run for the pose and the draws at hand
ComposePrompt ==
  /\ isProfileReady
  /\ composed' =
       [composed EXCEPT
          !.done = TRUE,
          !.orientation = directionMod(composed.pose.description),
          !.prompt = ComposedPrompt(composed.pose, composed.clothingDraw,
                                    composed.expressionDraw),
          !.aspectRatio = AspectRatio(composed.pose),
          !.again = composed.done,
          !.at = Len(gallery),
          !.before = composed.at]
  /\ last' = Step("compose")
  /\ UNCHANGED <<envVars, coreVars, hist, callerOps, isHairLocked,
                 isBodyLocked, adjustments, call>>

ComposerNext ==
  \/ ComposePrompt
  \/ executeClearBin

ComposerSpec == ComposerInit /\ [][ComposerNext]_vars

\* --------------------------------------------------------- synthesis client
DataUriPrefix == "data:image/png;base64,"

\* lines 61-63 of geminiService.ts: the text after the first 'base64,' up to
\* the next one, or the whole text when there is none
CleanBase64(imageBase64) ==
  LET marks == {k \in 1..Len(imageBase64) : imageBase64[k] = DataUriPrefix}
  IN IF marks = {} THEN imageBase64
     ELSE LET k == CHOOSE m \in marks : \A n \in marks : m <= n
              later == {n \in marks : n > k}
          IN IF later = {} THEN SubSeq(imageBase64, k + 1, Len(imageBase64))
             ELSE SubSeq(imageBase64, k + 1,
                         (CHOOSE m \in later : \A n \in later : m <= n) - 1)

\* reference images as the caller passes them: a data URI, or bare base64
ReferenceImages == {<<DataUriPrefix, "ref">>, <<"ref">>}

Resolutions == {"1K", "2K", "4K"}
AspectRatios == {"1:1", "3:4", "4:3", "9:16", "16:9"}

\* the state a call of the client starts from: nothing of the workspace is
\* in use, and the arguments and the provider's answer are at hand
ClientInit ==
  /\ userApiKey = <<"key">>
  /\ isKeyConfirmed = TRUE
  /\ sourceImage = NULL
  /\ profileMode = "auto"
  /\ characterProfile = NULL
  /\ manualCharacterProfile = <<>>
  /\ isAnalyzing = FALSE
  /\ analyses = 0
  /\ analysisHist = NoAnalysis
  /\ gallery = <<>>
  /\ failedAssets = <<>>
  /\ selectedPoseIds = {}
  /\ insertionOrder = <<>>
  /\ task = PendingTask
  /\ isAbortedRef = FALSE
  /\ loops = [b \in Batches |-> IdleLoop]
  /\ hist = [b \in Batches |-> NoHist]
  /\ last = Step("init")
  /\ callerOps = 0
  /\ isHairLocked = TRUE
  /\ isBodyLocked = FALSE
  /\ adjustments = DefaultAdjustments
  /\ composed = NoComposition
  /\ call \in
       { NewCall(img, res, ar, resp) :
           img \in ReferenceImages, res \in Resolutions,
           ar \in AspectRatios, resp \in ProviderResponses }

\* lines 51-111 of geminiService.ts: one call of generateCharacterImage
SynthesisCall ==
  /\ ~call.done
  /\ call' = [call EXCEPT
                !.done = TRUE,
                !.data = CleanBase64(call.imageBase64),
                !.result = generateCharacterImage(call.response)]
  /\ last' = Step("synthesis")
  /\ UNCHANGED <<envVars, coreVars, hist, callerOps, composerVars>>

ClientNext == SynthesisCall

ClientSpec == ClientInit /\ [][ClientNext]_vars

\* ------------------------------------------------------------------- claims
Terminal == {"completed", "failed", "stopped"}

\* the step is the return of a synthesis call of batch b
IsReturnOf(b) ==
  loops[b].pc = "await" /\ last'.op = "return" /\ last'.batch = b

\* the step is a call of startDatasetMode
IsStartCall == last'.op \in {"start", "refused"}

\* the batch has left its loop
Ended(b) == loops[b].pc \in {"done", "failed", "crashed"}

SetOf(seq) == {seq[k] : k \in 1..Len(seq)}

\* a result that is an authorization failure
AuthFailure(r) == ~r.ok /\ r.hasMessage /\ IsAuthFailure(r.message)

\* a result that is a failure of any other kind
OtherFailure(r) == ~r.ok /\ ~AuthFailure(r)

\* C1: in every reachable state task.current <= task.total
C1_CurrentWithinTotal == task.current <= task.total

\* C2: at most one synthesis call is in flight at any time
C2_OneCallInFlight == Cardinality(InFlight) <= 1

\* C3: once requestStop was called while a batch was running, the loop of
\* that batch begins no further synthesis call
C3_NoCallAfterStop ==
  [][\A b \in Batches :
       hist[b].stopRequested => hist'[b].calls = hist[b].calls]_vars

\* C4: unless a new batch is started, the status does not move from a
\* terminal state to another terminal state or back to generating
C4_TerminalStatusStays ==
  [][(task.status \in Terminal /\ last'.op /= "start")
       => (task'.status = task.status
             \/ task'.status \notin Terminal \cup {"generating"})]_vars

\* the fields of the task other than status and total
TaskPayload(t) == <<t.current, t.images, t.error>>

C6_FatalHaltsBatch ==
  [][\A b \in Batches :
       /\ (IsReturnOf(b) /\ AuthFailure(last'.result))
            => /\ task'.status = "failed"
               /\ task'.error = last'.result.message
               /\ Ended(b)'
               /\ hist'[b].calls = loops[b].i
       /\ hist[b].fatal /= {}
            => (hist'[b].calls = hist[b].calls /\ Ended(b)')]_vars

\* a batch has just failed fatally at a pose that is not its last
C6_Witness ==
  \E b \in Batches :
    /\ last.op = "return" /\ last.batch = b
    /\ hist[b].fatal /= {}
    /\ loops[b].i < Len(loops[b].poses)
    /\ hist[b].calls = loops[b].i
    /\ task.status = "failed"
    /\ task.error = ExpiredMsg

\* C7: a synthesis failure that is not an authorization failure records one
\* FailedAsset with the label of the pose, adds one to task.current and
\* does not end the batch: the loop goes on to the next pose
C7_OtherFailureContinues ==
  [][\A b \in Batches :
       (IsReturnOf(b) /\ OtherFailure(last'.result))
         => /\ Len(failedAssets') = Len(failedAssets) + 1
            /\ failedAssets'[1].label = POSE_DEFINITIONS[last'.pose].label
            /\ task'.current = task.current + 1
            /\ loops'[b].pc \in {"await", "done"}
            /\ LoopGoesOn(loops[b], isAbortedRef)
                 => (loops'[b].pc = "await" /\ loops'[b].i = loops[b].i + 1)
    ]_vars

\* the conditions under which the claim says startBatch does nothing
Refusable ==
  \/ sourceImage = NULL
  \/ getActiveProfile = NULL
  \/ ~isKeyConfirmed
  \/ selectedPoseIds = {}

\* C8: startBatch called without a reference image, without a resolving
\* profile, without authorization or with an empty selection set changes
\* neither task, gallery, failed-asset list, selection set nor cancellation
\* flag, and makes no synthesis call
C8_RefusedStartIsNoOp ==
  [][(IsStartCall /\ Refusable)
       => /\ UNCHANGED <<task, gallery, failedAssets, selectedPoseIds,
                         isAbortedRef, loops>>
          /\ \A b \in Batches : hist'[b].calls = hist[b].calls]_vars

\* startBatch was called with everything in place but a manual profile text
\* that is whitespace only
C8_Witness ==
  /\ last.op = "refused"
  /\ sourceImage /= NULL
  /\ isKeyConfirmed
  /\ selectedPoseIds /= {}
  /\ profileMode = "manual"
  /\ manualCharacterProfile /= <<>>
  /\ trim(manualCharacterProfile) = <<>>

C10_TaskCountsBatch ==
  \A b \in Batches :
    (b = Started /\ loops[b].pc = "await")
      => /\ Len(task.images) = Cardinality(hist[b].ok)
         /\ task.current =
              Cardinality(hist[b].ok) + Cardinality(hist[b].failed)

\* C11: if cancellation is requested after pose k of the n selected poses
\* of a batch has completed (k = 2 of n = 5 in the scenario), the loop stops
\* before pose k+1 begins and the batch ends stopped with task.current = k
C11_StopBeforeNextPose ==
  \A b \in Batches :
    (/\ hist[b].stopRequested
     /\ hist[b].doneAtStop >= 1
     /\ hist[b].doneAtStop < Len(loops[b].poses))
      => /\ hist[b].calls = hist[b].doneAtStop
         /\ Ended(b)
              => (task.status = "stopped"
                    /\ task.current = hist[b].doneAtStop)

\* the step is the return of the call of the last pose of batch b
IsLastReturnOf(b) == IsReturnOf(b) /\ loops[b].i = Len(loops[b].poses)

\* C12: the status becomes completed exactly when the loop of a batch has
\* gone through every selected pose with no cancellation requested and no
\* fatal authorization failure; a batch that was cancelled or failed fatally
\* never ends up completed
C12_CompletedIffLoopExhausted ==
  [][/\ (task'.status = "completed" /\ task.status /= "completed")
          => \E b \in Batches :
               /\ IsLastReturnOf(b)
               /\ loops'[b].pc = "done"
               /\ ~hist[b].stopRequested
               /\ hist'[b].fatal = {}
     /\ \A b \in Batches :
          (/\ IsLastReturnOf(b)
           /\ loops'[b].pc = "done"
           /\ ~hist[b].stopRequested)
            => task'.status = "completed"
     /\ \A b \in Batches :
          (IsReturnOf(b) /\ (hist[b].stopRequested \/ hist'[b].fatal /= {}))
            => task'.status /= "completed"
    ]_vars

\* C13: a start whose preconditions hold empties the failed-asset list,
\* resets the cancellation flag and sets the task to generating with total
\* the size of the selection set, current 0, no images and no error
C13_StartInitialisesBatch ==
  [][last'.op = "start"
       => /\ failedAssets' = <<>>
          /\ isAbortedRef' = FALSE
          /\ task' = [status |-> "generating",
                      total |-> Cardinality(selectedPoseIds),
                      current |-> 0, images |-> <<>>, error |-> NULL]]_vars

\* a second batch has just been started after a first one that recorded a
\* failed asset and then failed fatally
C13_Witness ==
  /\ last.op = "start"
  /\ last.batch = 2
  /\ hist[1].failed /= {}
  /\ hist[1].fatal /= {}
  /\ task.status = "generating"
  /\ task.total = Cardinality(selectedPoseIds)

\* every synthesis call that is in flight eventually returns
LiveSpec ==
  /\ Spec
  /\ \A b \in Batches :
       WF_vars(\E resp \in BatchResponses : SynthesisReturns(b, resp))

\* C14: every started batch eventually reaches a terminal status, provided
\* every synthesis call eventually returns a result or raises a failure,
\* with or without a message
C14_BatchTerminates ==
  \A b \in Batches :
    (last.op = "start" /\ last.batch = b) ~> (task.status \in Terminal)

\* the images of batch b in a list of images, in the order of the list
ImagesOf(seq, b) == SelectSeq(seq, LAMBDA img : img.id[2] = b)

\* the position at which the loop of batch b processes pose p
ProcessedAt(b, p) ==
  CHOOSE k \in 1..Len(loops[b].poses) : loops[b].poses[k] = p

\* the images of batch b in seq are in processing order, oldest first
OldestFirst(seq, b) ==
  \A i, j \in 1..Len(ImagesOf(seq, b)) :
    i < j => ProcessedAt(b, ImagesOf(seq, b)[i].id[3])
               < ProcessedAt(b, ImagesOf(seq, b)[j].id[3])

\* the images of batch b in seq are in reverse processing order
NewestFirst(seq, b) ==
  \A i, j \in 1..Len(ImagesOf(seq, b)) :
    i < j => ProcessedAt(b, ImagesOf(seq, b)[i].id[3])
               > ProcessedAt(b, ImagesOf(seq, b)[j].id[3])

\* C15 as stated: the images of a batch appear in task.images and in the
\* gallery in the order in which their poses were processed
C15_ImagesInProcessingOrder ==
  \A b \in Batches : OldestFirst(task.images, b) /\ OldestFirst(gallery, b)

\* C15 as amended: the images of a batch appear in task.images and in the
\* gallery in the reverse of the order in which their poses were processed,
\* the newest first
C15_ImagesNewestFirst ==
  \A b \in Batches : NewestFirst(task.images, b) /\ NewestFirst(gallery, b)

\* two images of one batch are in the task and in the gallery
C15_Witness ==
  \E b \in Batches :
    /\ Len(ImagesOf(task.images, b)) >= 2
    /\ Len(ImagesOf(gallery, b)) >= 2

\* C16: isReady is true exactly when activeProfile is present; in auto mode
\* activeProfile is the analysis result (absent if there is none, whatever
\* the manual text), in manual mode it is the trimmed manual text (absent
\* if that is empty, whatever the analysis result)
C16_ReadyIffProfilePresent ==
  /\ isProfileReady <=> (getActiveProfile /= NULL)
  /\ profileMode = "auto" => getActiveProfile = characterProfile
  /\ profileMode = "manual"
       => getActiveProfile =
            (IF trim(manualCharacterProfile) = <<>> THEN NULL
             ELSE trim(manualCharacterProfile))

\* manual mode with an analysis result at hand and a manual text that is
\* whitespace only: the resolver does not fall back on the analysis result
C16_Witness ==
  /\ profileMode = "manual"
  /\ characterProfile /= NULL
  /\ manualCharacterProfile = <<" ">>
  /\ ~isProfileReady

\* the tokens of a composed prompt that come from the identity profile and
\* mention a body word
BodyFragmentsIn(prompt) ==
  {i \in 1..Len(prompt) :
     prompt[i] \in SetOf(getActiveProfile) /\ MentionsBody(<<prompt[i]>>)}

\* C17: for every identity profile and either setting of the hair lock, the
\* prompt of a portrait pose contains no fragment of the identity profile
\* that includes "body build", "proportion" or "waist"
C17_PortraitCarriesNoBodyWords ==
  (composed.done /\ composed.pose.group = "portrait")
    => BodyFragmentsIn(composed.prompt) = {}

\* C18: if a pose description contains "rear" and "left", the orientation
\* clause contains a rear-view directive and a qualifier that places the
\* camera behind and to the right and says that the right side is visible
C18_RearLeftShowsRightSide ==
  (/\ composed.done
   /\ includesLower(composed.pose.description, "rear")
   /\ includesLower(composed.pose.description, "left"))
    => /\ includes(composed.orientation, RearDirective)
       /\ \E i \in 1..(Len(composed.orientation) - 2) :
            /\ composed.orientation[i] = CameraBehindRight
            /\ composed.orientation[i + 2] = RightSideVisible

Attempted(b) == hist[b].ok \cup hist[b].failed \cup hist[b].fatal

\* C20: within one batch the synthesis operation is invoked at most once
\* for each selected pose: every further call of a batch is for a pose the
\* batch has not attempted before, failed poses included
C20_NoRetryWithinBatch ==
  [][\A b \in Batches :
       hist'[b].calls > hist[b].calls
         => /\ hist'[b].calls = hist[b].calls + 1
            /\ hist'[b].calls <= Len(loops'[b].poses)
            /\ loops'[b].pc = "await"
            /\ loops'[b].poses[loops'[b].i] \notin Attempted(b)']_vars

\* a batch whose first pose failed has gone on to the call of its second
C20_Witness ==
  \E b \in Batches :
    /\ loops[b].pc = "await"
    /\ hist[b].calls = 2
    /\ hist[b].failed = {loops[b].poses[1]}
    /\ loops[b].poses[loops[b].i] \notin hist[b].failed
    /\ last.op = "return"

\* the provider's answer carries an image in part k and in no part before it
FirstImageAt(resp, k) ==
  /\ resp.kind = "answer"
  /\ resp.candidates > 0
  /\ k \in 1..Len(resp.parts)
  /\ resp.parts[k].inlineData /= NULL
  /\ \A j \in 1..(k - 1) : resp.parts[j].inlineData = NULL

\* the provider rejects the credential: the rejections the orchestrator
\* treats as authorization failures (line 349) or the client as an expired
\* key (line 106 of geminiService.ts)
RejectsCredential(resp) ==
  /\ resp.kind = "reject"
  /\ resp.hasMessage
  /\ includes(resp.message, "401") \/ includes(resp.message, NotFoundMsg[1])

\* C21: the synthesis operation returns the data URI of the first response
\* part that carries an image; it fails with NoCandidates when the response
\* has no candidate, with EmptyResponse when the first candidate has no
\* parts, with NoImagePayload when no part carries an image, and with
\* AuthExpired when the provider rejects the credential
C21_SynthesisOutcomeClasses ==
  call.done =>
    LET resp == call.response
        r == call.result
    IN /\ \A k \in 1..Len(resp.parts) :
            FirstImageAt(resp, k)
              => r = Resolved(<<DataUriPrefix>> \o resp.parts[k].inlineData)
       /\ (resp.kind = "answer" /\ resp.candidates = 0)
            => r = Thrown(TRUE, NoCandidatesMsg)
       /\ (resp.kind = "answer" /\ resp.candidates > 0 /\ resp.parts = <<>>)
            => r = Thrown(TRUE, EmptyResponseMsg)
       /\ (/\ resp.kind = "answer" /\ resp.candidates > 0
           /\ resp.parts /= <<>>
           /\ \A k \in 1..Len(resp.parts) : resp.parts[k].inlineData = NULL)
            => r = Thrown(TRUE, NoImageMsg)
       /\ RejectsCredential(resp) => r = Thrown(TRUE, ExpiredMsg)

\* C22: after a batch has ended with a fatal authorization failure the
\* caller is no longer authorized, only the confirmation of the credential
\* authorizes the caller again, and until then every startBatch is a no-op
C22_NoStartUntilReconfirmed ==
  [][/\ \A b \in Batches :
          (IsReturnOf(b) /\ AuthFailure(last'.result)) => ~isKeyConfirmed'
     /\ (~isKeyConfirmed /\ isKeyConfirmed') => last'.op = "confirm"
     /\ (~isKeyConfirmed /\ IsStartCall)
          => /\ last'.op = "refused"
             /\ UNCHANGED <<task, gallery, failedAssets, selectedPoseIds,
                            isAbortedRef, loops, isKeyConfirmed>>
             /\ \A b \in Batches : hist'[b].calls = hist[b].calls]_vars

\* startBatch has just been refused after a batch failed fatally, with the
\* reference image, the profile and a selection still in place
C22_Witness ==
  /\ last.op = "refused"
  /\ ~isKeyConfirmed
  /\ \E b \in Batches : hist[b].fatal /= {} /\ loops[b].pc = "failed"
  /\ task.status = "failed"
  /\ sourceImage /= NULL
  /\ isProfileReady
  /\ selectedPoseIds /= {}

\* the position of a pose in the catalog
CatalogIndex(id) == CHOOSE i \in 1..NumPoses : POSE_DEFINITIONS[i].id = id

\* a list of pose ids is in catalog order
InCatalogOrder(poses) ==
  \A i, j \in 1..Len(poses) :
    i < j => CatalogIndex(poses[i]) < CatalogIndex(poses[j])

\* C23: a batch processes the selected poses in catalog order, whatever the
\* order in which their ids were added to the selection set: the poses of a
\* batch are the selected ones listed in catalog order, and the loop
\* attempts them from the first to the last
C23_CatalogOrder ==
  [][/\ last'.op = "start"
          => /\ SetOf(loops'[last'.batch].poses) = selectedPoseIds
             /\ Len(loops'[last'.batch].poses) = Cardinality(selectedPoseIds)
     /\ \A b \in Batches :
          /\ InCatalogOrder(loops'[b].poses)
          /\ loops'[b].pc = "await"
               => Attempted(b)' =
                    {loops'[b].poses[k] : k \in 1..(loops'[b].i - 1)}]_vars

\* a batch whose poses were selected against the order of the catalog has
\* processed the first pose of the catalog and gone on to the second
C23_Witness ==
  \E b \in Batches :
    /\ loops[b].pc = "await"
    /\ loops[b].i = 2
    /\ insertionOrder = <<POSE_DEFINITIONS[2].id, POSE_DEFINITIONS[1].id>>
    /\ loops[b].poses = <<POSE_DEFINITIONS[1].id, POSE_DEFINITIONS[2].id>>
    /\ hist[b].failed = {POSE_DEFINITIONS[1].id}
    /\ ~hist[b].touched

\* the step is the return of the call of batch b that was in flight when
\* stopGeneration ran
IsReturnAfterStop(b) ==
  /\ IsReturnOf(b)
  /\ hist[b].stopRequested
  /\ hist[b].doneAtStop = loops[b].i - 1

\* the poses of the outcomes the task and the failed-asset list hold
CountedPoses(t, failed) ==
  [k \in 1..(Len(t.images) + Len(failed)) |->
     IF k <= Len(t.images) THEN t.images[k].id[3]
     ELSE failed[k - Len(t.images)].id[3]]

\* C24: a synthesis call that is in flight when requestStop is called is not
\* interrupted and its outcome is recorded exactly once: a success adds one
\* image and one to task.current, a non-fatal failure adds one FailedAsset
\* and one to task.current, and no pose is counted twice in task.current
C24_InFlightOutcomeRecordedOnce ==
  [][\A b \in Batches :
       IsReturnAfterStop(b)
         => /\ last'.result.ok
                 => /\ Len(task'.images) = Len(task.images) + 1
                    /\ task'.images[1] =
                         NewImage(b, last'.pose, last'.result.value)
                    /\ task'.current = task.current + 1
                    /\ failedAssets' = failedAssets
            /\ OtherFailure(last'.result)
                 => /\ Len(failedAssets') = Len(failedAssets) + 1
                    /\ failedAssets'[1].id = <<"failed", b, last'.pose>>
                    /\ task'.current = task.current + 1
                    /\ task'.images = task.images
            /\ \A i, j \in 1..Len(CountedPoses(task', failedAssets')) :
                 i /= j => CountedPoses(task', failedAssets')[i]
                             /= CountedPoses(task', failedAssets')[j]]_vars

\* seq is what list starts with
IsPrefix(seq, list) ==
  Len(seq) <= Len(list) /\ SubSeq(list, 1, Len(seq)) = seq

\* C25: between one batch start and the next the failed-asset list is
\* append-only: each non-fatal synthesis failure appends exactly one record
\* after the records already present, no record is removed or changed, and
\* the list is emptied only at batch start
C25_FailedAssetsAppendOnly ==
  [][/\ last'.op /= "start" => IsPrefix(failedAssets, failedAssets')
     /\ \A b \in Batches :
          (IsReturnOf(b) /\ OtherFailure(last'.result))
            => /\ Len(failedAssets') = Len(failedAssets) + 1
               /\ failedAssets'[Len(failedAssets')].id
                    = <<"failed", b, last'.pose>>
     /\ Len(failedAssets') > Len(failedAssets)
          => /\ last'.op = "return"
             /\ OtherFailure(last'.result)
     /\ last'.op = "start" => failedAssets' = <<>>]_vars

\* how many times tok occurs in text
Occurrences(text, tok) == Cardinality({k \in 1..Len(text) : text[k] = tok})

\* a keyword family of the orientation clause matched the description
FamilyMatched(desc) ==
  \/ isRear(desc) \/ isOverShoulder(desc) \/ isLeft(desc) \/ isRight(desc)
  \/ isProfile(desc) \/ is45(desc)
  \/ includesLower(desc, "frontal") \/ includesLower(desc, "center")

\* a single non-frontal directive that ends with the constraint
SingleNonFrontal(o) ==
  /\ Len(o) >= 3
  /\ o[1] = OrientationHeader
  /\ o[2] \in {RearDirective, ProfileDirective, AngledDirective}
  /\ Occurrences(o, RearDirective) + Occurrences(o, ProfileDirective)
       + Occurrences(o, AngledDirective) = 1
  /\ o[Len(o) - 1] = NoFrontalFace
  /\ o[Len(o)] = "."
  /\ Occurrences(o, NoFrontalFace) = 1
  /\ ~includes(o, FrontalDirective)

\* C26: the orientation clause of a pose description is empty (no keyword
\* family matched), or the frontal direct-gaze directive, or a single
\* non-frontal directive that ends with the constraint forbidding a full
\* frontal face; the frontal directive is produced only when none of the
\* rear, left and right families matched and never together with that
\* constraint, and an over-the-shoulder match always adds its qualifier
C26_OrientationClauseShape ==
  composed.done =>
    LET desc == composed.pose.description
        o == composed.orientation
    IN /\ \/ o = <<>> /\ ~FamilyMatched(desc)
          \/ o = <<FrontalDirective, ".">>
          \/ SingleNonFrontal(o)
       /\ includes(o, FrontalDirective)
            => (~isRear(desc) /\ ~isLeft(desc) /\ ~isRight(desc)
                  /\ ~includes(o, NoFrontalFace))
       /\ isOverShoulder(desc) => Occurrences(o, OverShoulderQualifier) = 1

\* the labels that open the clauses after the orientation clause, in the
\* order of the template of line 323
ClauseLabels ==
  <<"TARGET POSE: ", "COMPOSITION: ", "EXPRESSION: ", "CLOTHING: ",
    "IDENTITY CONSTRAINTS: ", "ENVIRONMENT: ">>

\* the positions at which tok occurs in text
PositionsOf(text, tok) == {k \in 1..Len(text) : text[k] = tok}

\* the clause that starts at position k of the prompt is separated from the
\* clause before it by one period and one space
OneDelimiterBefore(prompt, k) ==
  /\ k > 3
  /\ prompt[k - 1] = " "
  /\ prompt[k - 2] = "."
  /\ prompt[k - 3] \notin {".", " "}

\* C27: in every composed prompt the clauses appear in the order header,
\* orientation, target pose, composition, expression, wardrobe, identity,
\* environment, any two consecutive clauses are separated by exactly one
\* delimiter, and an absent orientation or expression clause leaves no
\* delimiter behind
C27_ClausesInOrderOneDelimiter ==
  composed.done =>
    LET prompt == composed.prompt
        o == composed.orientation
        expression == ExpressionOf(composed.pose, composed.expressionDraw)
        At(n) == PositionsOf(prompt, ClauseLabels[n])
    IN /\ prompt[1] = "DATASET PRODUCTION"
       /\ \A n \in 1..Len(ClauseLabels) :
            Cardinality(At(n)) = (IF n = 3 /\ expression = "" THEN 0 ELSE 1)
       /\ \A m, n \in 1..Len(ClauseLabels) :
            m < n => \A i \in At(m), j \in At(n) : i < j
       /\ o /= <<>>
            => /\ SubSeq(prompt, 4, 3 + Len(o)) = o
               /\ OneDelimiterBefore(prompt, 4)
               /\ At(1) = {5 + Len(o)}
       /\ o = <<>> => At(1) = {4}
       /\ \A n \in 1..Len(ClauseLabels) :
            \A k \in At(n) : OneDelimiterBefore(prompt, k)

\* C28: in every reachable state, under any interleaving of startBatch,
\* requestStop, clear-bin, reset-workspace and synthesis completions,
\* task.current = task.images.length + failedAssets.length
C28_CurrentCountsOutcomes ==
  task.current = Len(task.images) + Len(failedAssets)

\* the outcome of a call that was stopped and the outcome of the batch
\* started after the stop are both counted in a task of one pose
C28_Witness ==
  /\ Started = 2
  /\ hist[1].stopRequested
  /\ task.total = 1
  /\ task.current = 2
  /\ Len(task.images) = 1
  /\ Len(failedAssets) = 1

\* a result after which the loop goes on: a success or a recorded failure
Recorded(r) == r.ok \/ (r.hasMessage /\ ~IsAuthFailure(r.message))

\* C29: the list of poses a batch attempts and task.total are fixed when the
\* batch starts: the list of a started batch never changes, the loop goes
\* from each pose to the next of that list whatever has happened to the
\* selection set, and no operation on the selection set changes task.total
C29_PosesAndTotalFixedAtStart ==
  [][/\ \A b \in Batches :
          /\ loops[b].pc /= "idle" => loops'[b].poses = loops[b].poses
          /\ (/\ IsReturnOf(b)
              /\ Recorded(last'.result)
              /\ ~isAbortedRef
              /\ loops[b].i < Len(loops[b].poses))
               => /\ loops'[b].pc = "await"
                  /\ loops'[b].i = loops[b].i + 1
          /\ hist'[b].calls > hist[b].calls
               => hist'[b].calls <= Len(loops'[b].poses)
     /\ last'.op \notin {"start", "clear", "reset"}
          => task'.total = task.total
     /\ selectedPoseIds' /= selectedPoseIds
          => /\ loops' = loops
                  \/ \E b \in Batches : IsReturnOf(b) /\ last'.result.ok
             /\ last'.op /= "reset" => task'.total = task.total]_vars

\* a batch of two poses has gone on to its second pose after the caller took
\* that pose out of the selection set, and the total is still two
C29_Witness ==
  \E b \in Batches :
    /\ hist[b].touched
    /\ loops[b].pc = "await"
    /\ loops[b].i = 2
    /\ loops[b].poses[2] \notin selectedPoseIds
    /\ last.op = "return"
    /\ last.batch = b
    /\ task.status = "generating"
    /\ task.total = 2

\* C30: the analysing indicator is true in every state in which an analysis
\* call is in flight, a second call triggered before the first has returned
\* included, and once the analysis started last has returned a profile the
\* stored auto profile is the result of that analysis
C30_AnalysingWhileInFlight ==
  /\ analyses > 0 => isAnalyzing
  /\ (analysisHist.newest = "ok" /\ characterProfile /= NULL)
       => analysisHist.profileFrom = "newest"

====
